---- MODULE Spec2Model ----
(***************************************************************************)
(* Model of object-encoder (src/lib/index.ts): createObjectEncoder and the *)
(* encode / decode pair it returns, over a heap of JavaScript objects.     *)
(*                                                                         *)
(* Strings (property names, the tag key) are sequences of one-character    *)
(* strings.  A JavaScript value is a record [t, x, r]: t is the type,      *)
(* x the characters of a string or the digits of a number, r the heap      *)
(* reference of an object.  A heap object is a record                      *)
(* [kind, len, ents, plain]: kind "obj" (plain object), "arr" (Array) or   *)
(* "src" (an instance accepted by isSource); len is the length of an       *)
(* Array; ents is the list of own enumerable properties in the order of    *)
(* Object.entries; plain is what toPlainObject returns for a "src".        *)
(* Only own enumerable string-keyed properties are modelled (no prototype  *)
(* chain, no symbols, no accessors); property values are primitives, the   *)
(* engine being shallow.                                                   *)
(***************************************************************************)
EXTENDS Integers, Sequences, FiniteSets, TLC

VARIABLES key, escapeCharacter, value, heap, input, ops, results, calls,
          keyA, keyB, escapedA, escapedB, restoredA, restoredB, phase

vars == <<key, escapeCharacter, value, heap, input, ops, results, calls,
          keyA, keyB, escapedA, escapedB, restoredA, restoredB, phase>>

(* ------------------------------ bounds --------------------------------- *)
MaxEntries == 2
MaxArrProps == 1
MaxLen == 2
MaxOps == 4
MaxKeyLen == 3
MaxTagLen == 2

(* ------------------------------ values --------------------------------- *)
Undefined == [t |-> "undefined", x |-> <<>>, r |-> 0]
Null == [t |-> "null", x |-> <<>>, r |-> 0]
Num(digits) == [t |-> "number", x |-> digits, r |-> 0]
Str(chars) == [t |-> "string", x |-> chars, r |-> 0]
Ref(n) == [t |-> "object", x |-> <<>>, r |-> n]

\* Object(arg) === arg
IsObject(arg) == arg.t = "object"

Digits == <<"0", "1", "2", "3", "4", "5", "6", "7", "8", "9">>

DigitVal(c) == (CHOOSE d \in 1..10 : Digits[d] = c) - 1

IsDigit(c) == \E d \in 1..10 : Digits[d] = c

RECURSIVE ToKey(_)
ToKey(i) == IF i < 10 THEN <<Digits[i + 1]>>
            ELSE ToKey(i \div 10) \o <<Digits[(i % 10) + 1]>>

RECURSIVE KeyToIndex(_)
KeyToIndex(k) == IF Len(k) = 0 THEN 0
                 ELSE 10 * KeyToIndex(SubSeq(k, 1, Len(k) - 1)) + DigitVal(k[Len(k)])

\* a property name that is a canonical array index ("0", "1", "10", not "01")
IsIndexKey(k) == /\ Len(k) >= 1
                 /\ \A i \in 1..Len(k) : IsDigit(k[i])
                 /\ (Len(k) = 1 \/ k[1] # "0")

(* --------------------------- heap objects ------------------------------ *)
EmptyObject == [kind |-> "obj", len |-> 0, ents |-> <<>>, plain |-> Undefined]
EmptyArray == [kind |-> "arr", len |-> 0, ents |-> <<>>, plain |-> Undefined]
SourceObject(p) == [kind |-> "src", len |-> 0, ents |-> <<>>, plain |-> p]

HasOwn(o, k) == \E i \in 1..Len(o.ents) : o.ents[i].k = k

\* o[k] for an own property; undefined when absent
GetProp(o, k) == IF HasOwn(o, k)
                 THEN o.ents[CHOOSE i \in 1..Len(o.ents) : o.ents[i].k = k].v
                 ELSE Undefined

\* position at which a new property k is listed by Object.entries:
\* integer keys ascending first, then the other names in insertion order
InsertPos(o, k) ==
  IF IsIndexKey(k)
  THEN 1 + Cardinality({i \in 1..Len(o.ents) :
                          /\ IsIndexKey(o.ents[i].k)
                          /\ KeyToIndex(o.ents[i].k) < KeyToIndex(k)})
  ELSE Len(o.ents) + 1

\* o[k] = v
SetProp(o, k, v) ==
  IF HasOwn(o, k)
  THEN [o EXCEPT !.ents = [i \in 1..Len(o.ents) |->
                             IF o.ents[i].k = k THEN [k |-> k, v |-> v] ELSE o.ents[i]]]
  ELSE LET p == InsertPos(o, k)
           e == SubSeq(o.ents, 1, p - 1) \o <<[k |-> k, v |-> v]>>
                  \o SubSeq(o.ents, p, Len(o.ents))
           n == IF o.kind = "arr" /\ IsIndexKey(k) /\ KeyToIndex(k) + 1 > o.len
                THEN KeyToIndex(k) + 1 ELSE o.len
       IN [o EXCEPT !.ents = e, !.len = n]

\* delete o[k]
DeleteProp(o, k) ==
  [o EXCEPT !.ents = SelectSeq(o.ents, LAMBDA e : e.k # k)]

\* the own enumerable properties a spread (...v) copies out of a value
SpreadEntries(h, v) ==
  IF IsObject(v) THEN h[v.r].ents
  ELSE IF v.t = "string"
       THEN [i \in 1..Len(v.x) |-> [k |-> ToKey(i - 1), v |-> Str(<<v.x[i]>>)]]
       ELSE <<>>

RECURSIVE AssignAll(_, _, _)
\* for each entry of ents in order, from position i on: o[k] = v
AssignAll(o, ents, i) ==
  IF i > Len(ents) THEN o
  ELSE AssignAll(SetProp(o, ents[i].k, ents[i].v), ents, i + 1)

(* ----------------------- key escaping (closure) ------------------------ *)
\* str.slice(-n)
SliceLast(str, n) == IF n = 0 \/ n >= Len(str) THEN str
                     ELSE SubSeq(str, Len(str) - n + 1, Len(str))

\* counts the leading escape characters first, then compares the rest
getEscapeCharCountGreedy(str) ==
  LET lead == CHOOSE n \in 0..Len(str) :
                /\ \A i \in 1..n : str[i] = escapeCharacter
                /\ (n < Len(str) => str[n + 1] # escapeCharacter)
  IN IF SubSeq(str, lead + 1, Len(str)) = key THEN lead ELSE -1

\* compares the suffix only, not the characters in front of it
getEscapeCharCountSuffixOnly(str) ==
  LET count == Len(str) - Len(key)
  IN IF count >= 0 /\ SliceLast(str, Len(key)) = key THEN count ELSE -1

getEscapeCharCount(str) ==
  LET count == Len(str) - Len(key)
  IN IF count >= 0 /\ SliceLast(str, Len(key)) = key
     THEN IF \E i \in 1..count : str[i] # escapeCharacter THEN -1 ELSE count
     ELSE -1

prependEscapeCharAlways(str) == <<escapeCharacter>> \o str

prependEscapeCharNever(str) == str

prependEscapeChar(str) ==
  IF getEscapeCharCount(str) = -1 THEN str ELSE <<escapeCharacter>> \o str

removePrependedEscapeCharNever(str) == str

removePrependedEscapeCharAll(str) ==
  IF getEscapeCharCount(str) > 0 THEN key ELSE str

removePrependedEscapeChar(str) ==
  IF getEscapeCharCount(str) > 0 THEN SubSeq(str, 2, Len(str)) ELSE str

(* ------------------- the caller-supplied converters -------------------- *)
isSource(h, arg) == IsObject(arg) /\ h[arg.r].kind = "src"

toPlainObject(h, arg) == h[arg.r].plain

\* builds a new instance from the plain value it is handed
fromPlainObject(h, arg) ==
  [heap |-> Append(h, SourceObject(arg)), ret |-> Ref(Len(h) + 1)]

(* ------------------------------ engine --------------------------------- *)
\* The clone is built for every container; it enters the heap only when it
\* is the value returned (a discarded clone is unreachable).
\* replaceKey names the callback: prependEscapeChar or removePrependedEscapeChar
replaceObjectKey(h, arg, replaceKey) ==
  IF ~IsObject(arg) THEN [heap |-> h, ret |-> arg]
  ELSE LET entries == h[arg.r].ents
           renamed == [i \in 1..Len(entries) |->
                         [k |-> IF replaceKey = "prependEscapeChar"
                                THEN prependEscapeChar(entries[i].k)
                                ELSE removePrependedEscapeChar(entries[i].k),
                          v |-> entries[i].v]]
           clone == AssignAll(IF h[arg.r].kind = "arr" THEN EmptyArray ELSE EmptyObject,
                              renamed, 1)
           containsEscapedKey == \E i \in 1..Len(entries) : renamed[i].k # entries[i].k
       IN IF containsEscapedKey
          THEN [heap |-> Append(h, clone), ret |-> Ref(Len(h) + 1)]
          ELSE [heap |-> h, ret |-> arg]

\* { [key]: value, ...escaped }
TagSpread(h, escaped) ==
  [heap |-> Append(h, AssignAll(SetProp(EmptyObject, key, value),
                                SpreadEntries(h, escaped), 1)),
   ret |-> Ref(Len(h) + 1)]

ObjectSpreadAlias(h, arg) == [heap |-> h, ret |-> arg]

\* { ...arg }
ObjectSpread(h, arg) ==
  [heap |-> Append(h, AssignAll(EmptyObject, SpreadEntries(h, arg), 1)),
   ret |-> Ref(Len(h) + 1)]

encode(h, arg) ==
  LET isSourceType == isSource(h, arg)
      converted == IF isSourceType THEN toPlainObject(h, arg) ELSE arg
      escaped == replaceObjectKey(h, converted, "prependEscapeChar")
      tagged == TagSpread(escaped.heap, escaped.ret)
  IN IF isSourceType
     THEN [heap |-> tagged.heap, ret |-> tagged.ret,
           calls |-> <<[fn |-> "toPlainObject", arg |-> arg]>>]
     ELSE [heap |-> escaped.heap, ret |-> escaped.ret, calls |-> <<>>]

decode(h, arg) ==
  IF ~IsObject(arg) THEN [heap |-> h, ret |-> arg, calls |-> <<>>]
  ELSE LET isTargetType == GetProp(h[arg.r], key) = value
           cloned == IF isTargetType THEN ObjectSpread(h, arg)
                     ELSE [heap |-> h, ret |-> arg]
           stripped == IF isTargetType
                       THEN [cloned.heap EXCEPT ![cloned.ret.r] = DeleteProp(@, key)]
                       ELSE cloned.heap
           unescaped == replaceObjectKey(stripped, cloned.ret, "removePrependedEscapeChar")
           restored == fromPlainObject(unescaped.heap, unescaped.ret)
       IN IF isTargetType
          THEN [heap |-> restored.heap, ret |-> restored.ret,
                calls |-> <<[fn |-> "fromPlainObject", arg |-> unescaped.ret]>>]
          ELSE [heap |-> unescaped.heap, ret |-> unescaped.ret, calls |-> <<>>]

(* ------------------------- configurations, inputs ---------------------- *)
Chars == {"_", "t"}

\* typeTag descriptors: the demo's shape ("$type", "_"), a key that begins
\* with the escape character, a key made of the escape character only
Configs ==
  { [key |-> <<"t">>, escapeCharacter |-> "_", value |-> Str(<<"E">>)],
    [key |-> <<"_", "t">>, escapeCharacter |-> "_", value |-> Num(<<"1">>)],
    [key |-> <<"_">>, escapeCharacter |-> "_", value |-> Null] }

RECURSIVE Strings(_)
\* the strings over Chars of length at most n
Strings(n) == IF n = 0 THEN {<<>>}
              ELSE Strings(n - 1) \cup
                   {Append(s, c) : s \in {u \in Strings(n - 1) : Len(u) = n - 1}, c \in Chars}

PropKeys == {key, <<escapeCharacter>> \o key,
             <<escapeCharacter, escapeCharacter>> \o key,
             <<"a">>, <<"a">> \o key}

ElemVals == {Str(<<"x">>), value}

Prims == {Undefined, Null, Num(<<"1">>), Str(<<"x", "y">>)}

RECURSIVE EntryLists(_)
\* property lists of at most n entries with distinct names
EntryLists(n) ==
  IF n = 0 THEN {<<>>}
  ELSE LET S == EntryLists(n - 1)
       IN S \cup UNION { {Append(s, [k |-> k, v |-> v]) :
                             k \in {n2 \in PropKeys : \A i \in 1..Len(s) : s[i].k # n2},
                             v \in ElemVals} :
                          s \in {u \in S : Len(u) = n - 1} }

\* a slot of an Array literal that holds no element
Hole == [t |-> "hole", x |-> <<>>, r |-> 0]

ObjectsOf == {AssignAll(EmptyObject, e, 1) : e \in EntryLists(MaxEntries)}

\* Arrays of length at most MaxLen with extra named properties; slot i is a
\* hole or holds an element that differs from the element of every other slot
ArraysOf ==
  UNION { { AssignAll([EmptyArray EXCEPT !.len = n],
                      SelectSeq([i \in 1..n |-> [k |-> ToKey(i - 1), v |-> f[i]]],
                                LAMBDA e : e.v # Hole) \o props, 1) :
            f \in {g \in [1..n -> {Hole} \cup {Str(ToKey(j)) : j \in 1..n}] :
                     \A i \in 1..n : g[i] \in {Hole, Str(ToKey(i))}},
            props \in EntryLists(MaxArrProps) } :
          n \in 0..MaxLen }

Containers == ObjectsOf \cup ArraysOf

\* the values handed to encode / decode: primitives, containers, and
\* instances whose plain form is a primitive or a container
Inputs ==
  {[heap |-> <<>>, val |-> p] : p \in Prims}
  \cup {[heap |-> <<o>>, val |-> Ref(1)] : o \in Containers}
  \cup {[heap |-> <<SourceObject(p)>>, val |-> Ref(1)] : p \in Prims \ {Undefined}}
  \cup {[heap |-> <<o, SourceObject(Ref(1))>>, val |-> Ref(2)] : o \in Containers}

(* ------------------------- encode / decode runs ------------------------ *)
Init ==
  /\ \E c \in Configs :
       /\ key = c.key
       /\ escapeCharacter = c.escapeCharacter
       /\ value = c.value
  /\ \E i \in Inputs : heap = i.heap /\ input = i.val
  /\ ops = <<>>
  /\ results = <<>>
  /\ calls = <<>>
  /\ keyA = <<>> /\ keyB = <<>>
  /\ escapedA = <<>> /\ escapedB = <<>>
  /\ restoredA = <<>> /\ restoredB = <<>>
  /\ phase = "none"

\* the value the next call is applied to: the previous call's result
Current == IF results = <<>> THEN input ELSE results[Len(results)]

Apply(name, r) ==
  /\ heap' = r.heap
  /\ ops' = Append(ops, name)
  /\ results' = Append(results, r.ret)
  /\ calls' = calls \o [j \in 1..Len(r.calls) |->
                          [op |-> Len(ops) + 1, fn |-> r.calls[j].fn, arg |-> r.calls[j].arg]]
  /\ UNCHANGED <<key, escapeCharacter, value, input,
                 keyA, keyB, escapedA, escapedB, restoredA, restoredB, phase>>

EncodeStep ==
  /\ Len(ops) < MaxOps
  /\ Apply("encode", encode(heap, Current))

DecodeStep ==
  /\ Len(ops) < MaxOps
  /\ Apply("decode", decode(heap, Current))

Next == EncodeStep \/ DecodeStep

Spec == Init /\ [][Next]_vars

(* ----------------------- key functions on their own -------------------- *)
KeyInit ==
  /\ key \in Strings(MaxTagLen) \ {<<>>}
  /\ escapeCharacter \in Chars
  /\ value = Null
  /\ heap = <<>> /\ input = Undefined
  /\ ops = <<>> /\ results = <<>> /\ calls = <<>>
  /\ keyA \in Strings(MaxKeyLen)
  /\ keyB \in Strings(MaxKeyLen)
  /\ escapedA = <<>> /\ escapedB = <<>>
  /\ restoredA = <<>> /\ restoredB = <<>>
  /\ phase = "keys"

PrependStep ==
  /\ phase = "keys"
  /\ escapedA' = prependEscapeChar(keyA)
  /\ escapedB' = prependEscapeChar(keyB)
  /\ phase' = "escaped"
  /\ UNCHANGED <<key, escapeCharacter, value, heap, input, ops, results, calls,
                 keyA, keyB, restoredA, restoredB>>

RemoveStep ==
  /\ phase = "escaped"
  /\ restoredA' = removePrependedEscapeChar(escapedA)
  /\ restoredB' = removePrependedEscapeChar(escapedB)
  /\ phase' = "restored"
  /\ UNCHANGED <<key, escapeCharacter, value, heap, input, ops, results, calls,
                 keyA, keyB, escapedA, escapedB>>

KeyNext == PrependStep \/ RemoveStep

KeySpec == KeyInit /\ [][KeyNext]_vars

(* ------------------------ vocabulary of the claims --------------------- *)
\* the argument and the fromPlainObject / toPlainObject calls of the i-th call
ArgOf(i) == IF i = 1 THEN input ELSE results[i - 1]

CallsOf(i, fn) == SelectSeq(calls, LAMBDA c : c.op = i /\ c.fn = fn)

NoCalls(i) == \A j \in 1..Len(calls) : calls[j].op # i

EntrySet(o) == {<<o.ents[i].k, o.ents[i].v>> : i \in 1..Len(o.ents)}

KeySet(o) == {o.ents[i].k : i \in 1..Len(o.ents)}

\* N escape characters followed by the tag key
EscRun(n) == [i \in 1..n |-> escapeCharacter]

TagShaped(k) == \E n \in 0..Len(k) : k = EscRun(n) \o key

Depth(k) == CHOOSE n \in 0..Len(k) : k = EscRun(n) \o key

OneMore(k) == IF TagShaped(k) THEN <<escapeCharacter>> \o k ELSE k

OneLess(k) == IF TagShaped(k) /\ Depth(k) >= 1 THEN Tail(k) ELSE k

\* a container that is not an instance: a plain object or an Array
IsPlainContainer(v) == IsObject(v) /\ heap[v.r].kind \in {"obj", "arr"}

IsArray(v) == IsObject(v) /\ heap[v.r].kind = "arr"

IsMapping(v) == IsObject(v) /\ heap[v.r].kind = "obj"

PlainOf(v) == heap[v.r].plain

\* same length and the same element (or the same hole) at every index
SameElements(a, b) ==
  /\ heap[a.r].len = heap[b.r].len
  /\ \A n \in 0..(heap[b.r].len - 1) :
       /\ HasOwn(heap[a.r], ToKey(n)) = HasOwn(heap[b.r], ToKey(n))
       /\ GetProp(heap[a.r], ToKey(n)) = GetProp(heap[b.r], ToKey(n))

EncDecAt(i) == i < Len(ops) /\ ops[i] = "encode" /\ ops[i + 1] = "decode"

(* ------------------------------- claims -------------------------------- *)
\* C1: round trip of an instance whose plain form is a mapping: decode of
\* encode calls fromPlainObject exactly once, with a mapping holding exactly
\* the entries of toPlainObject(s), and returns what that call returns; the
\* instance it returns has the plain form of s.
C1_RoundTripMapping ==
  \A i \in 1..Len(ops) :
    (EncDecAt(i) /\ isSource(heap, ArgOf(i)) /\ IsMapping(PlainOf(ArgOf(i)))) =>
      LET from == CallsOf(i + 1, "fromPlainObject")
      IN /\ Len(from) = 1
         /\ IsMapping(from[1].arg)
         /\ EntrySet(heap[from[1].arg.r]) = EntrySet(heap[PlainOf(ArgOf(i)).r])
         /\ isSource(heap, results[i + 1])
         /\ PlainOf(results[i + 1]) = from[1].arg

C1_Witness ==
  /\ ops = <<"encode", "decode">>
  /\ isSource(heap, input) /\ IsMapping(PlainOf(input))
  /\ {key, <<escapeCharacter>> \o key} \subseteq KeySet(heap[PlainOf(input).r])
  /\ GetProp(heap[PlainOf(input).r], key) = value
  /\ isSource(heap, results[2])
  /\ KeySet(heap[PlainOf(results[2]).r]) = KeySet(heap[PlainOf(input).r])

C3_PassThrough ==
  \A i \in 1..Len(ops) :
    (/\ ~isSource(heap, ArgOf(i))
     /\ (IsObject(ArgOf(i)) => \A k \in KeySet(heap[ArgOf(i).r]) : ~TagShaped(k))) =>
      /\ results[i] = ArgOf(i)
      /\ NoCalls(i)

C3_Witness ==
  /\ ops = <<"encode", "decode">>
  /\ IsPlainContainer(input)
  /\ KeySet(heap[input.r]) = {<<"a">>, <<"a">> \o key}
  /\ results = <<input, input>>

\* C4: the encoding of an instance whose plain form is a container maps the
\* tag key to the tag value and holds every entry (k, x) of the plain form
\* under k, or under escapeCharacter + k when k is tag-shaped, and nothing
\* else.
C4_TagInsertion ==
  \A i \in 1..Len(ops) :
    (/\ ops[i] = "encode" /\ isSource(heap, ArgOf(i))
     /\ IsPlainContainer(PlainOf(ArgOf(i)))) =>
      /\ IsMapping(results[i])
      /\ GetProp(heap[results[i].r], key) = value
      /\ \A e \in EntrySet(heap[PlainOf(ArgOf(i)).r]) :
           <<OneMore(e[1]), e[2]>> \in EntrySet(heap[results[i].r])
      /\ Len(heap[results[i].r].ents) = Len(heap[PlainOf(ArgOf(i)).r].ents) + 1

C4_Witness ==
  /\ ops = <<"encode">>
  /\ isSource(heap, input) /\ IsMapping(PlainOf(input))
  /\ HasOwn(heap[PlainOf(input).r], key)
  /\ GetProp(heap[PlainOf(input).r], key) # value
  /\ GetProp(heap[results[1].r], key) = value
  /\ GetProp(heap[results[1].r], <<escapeCharacter>> \o key)
       = GetProp(heap[PlainOf(input).r], key)

\* the container whose keys the i-th call rewrites, and the one it builds:
\* encode rewrites the plain form of an instance and returns the container;
\* decode hands the container to fromPlainObject when the argument is tagged
RewrittenBy(i) == IF isSource(heap, ArgOf(i)) THEN PlainOf(ArgOf(i)) ELSE ArgOf(i)

BuiltBy(i) == IF CallsOf(i, "fromPlainObject") # <<>>
              THEN CallsOf(i, "fromPlainObject")[1].arg
              ELSE results[i]

Tagged(v) == GetProp(heap[v.r], key) = value

RECURSIVE Repeat(_, _)
Repeat(name, n) == IF n = 0 THEN <<>> ELSE Append(Repeat(name, n - 1), name)

C6_SequenceSymmetry ==
  \A i \in 1..Len(ops) :
    /\ (ops[i] = "encode" /\ IsArray(ArgOf(i))) =>
         /\ IsArray(results[i])
         /\ SameElements(results[i], ArgOf(i))
         /\ (EncDecAt(i) =>
               /\ IsArray(results[i + 1])
               /\ SameElements(results[i + 1], ArgOf(i)))
    /\ ~IsArray(ArgOf(i)) => ~IsArray(results[i])

\* C7: for an instance whose plain form is an Array, decode of encode hands
\* fromPlainObject an Array with the same elements at the same indices.
C7_SourceSequenceSymmetry ==
  \A i \in 1..Len(ops) :
    (EncDecAt(i) /\ isSource(heap, ArgOf(i)) /\ IsArray(PlainOf(ArgOf(i)))) =>
      LET from == CallsOf(i + 1, "fromPlainObject")
      IN /\ Len(from) = 1
         /\ IsArray(from[1].arg)
         /\ SameElements(from[1].arg, PlainOf(ArgOf(i)))

\* C8: for an instance whose plain form is a primitive or null, decode of
\* encode hands that same primitive to fromPlainObject and returns its result.
C8_PrimitiveRoundTrip ==
  \A i \in 1..Len(ops) :
    (EncDecAt(i) /\ isSource(heap, ArgOf(i)) /\ ~IsObject(PlainOf(ArgOf(i)))) =>
      LET from == CallsOf(i + 1, "fromPlainObject")
      IN /\ Len(from) = 1
         /\ from[1].arg = PlainOf(ArgOf(i))
         /\ isSource(heap, results[i + 1])
         /\ PlainOf(results[i + 1]) = PlainOf(ArgOf(i))

\* C9: encode and decode never change an object that exists when they are
\* called (the argument keeps its keys and values, a tagged argument keeps
\* its tag), and a result whose entries differ from the argument's is a
\* different object.
C9_InputsNotMutated ==
  [][ /\ \A r \in 1..Len(heap) : heap'[r] = heap[r]
      /\ (results' # results /\ IsObject(Current)
            /\ IsObject(results'[Len(results')])) =>
           (EntrySet(heap'[results'[Len(results')].r]) # EntrySet(heap[Current.r])
              => results'[Len(results')] # Current) ]_vars

C9_Witness ==
  /\ ops = <<"decode">>
  /\ IsPlainContainer(input)
  /\ CallsOf(1, "fromPlainObject") # <<>>
  /\ GetProp(heap[input.r], key) = value
  /\ HasOwn(heap[input.r], <<escapeCharacter>> \o key)
  /\ CallsOf(1, "fromPlainObject")[1].arg # input
  /\ GetProp(heap[CallsOf(1, "fromPlainObject")[1].arg.r], key)
       = GetProp(heap[input.r], <<escapeCharacter>> \o key)

\* C10: for every non-empty tag key and one-character escape character,
\* also when the key begins with or consists of the escape character,
\* removePrependedEscapeChar undoes prependEscapeChar on every key, and
\* prependEscapeChar maps distinct keys to distinct keys.
C10_KeyInverse ==
  /\ phase = "restored" => restoredA = keyA /\ restoredB = keyB
  /\ (phase \in {"escaped", "restored"} /\ keyA # keyB) => escapedA # escapedB

C10_Witness ==
  /\ phase = "restored"
  /\ key[1] = escapeCharacter
  /\ keyA = key
  /\ keyB = <<escapeCharacter>> \o key
  /\ escapedA = keyB
  /\ escapedB # keyB
  /\ restoredA = keyA

====
